---- MODULE Spec2Model ----
(***************************************************************************)
(* The collaborative-filtering notebooks of books/collaborative            *)
(* (Cosine Similarity, Pearson Correlation, and the data cells of          *)
(* Dimensionality Reduction - SVD) as a state machine.                     *)
(*                                                                         *)
(* The state is the namespace of the Jupyter kernel a notebook runs in:    *)
(* one variable per global name the cells assign.  A name is a sequence    *)
(* of length 0 while it is unbound and of length 1, holding its value,     *)
(* once a cell assigned it.  One action per code cell; a cell that raises  *)
(* keeps the assignments made by the statements before the raising one.    *)
(*                                                                         *)
(* Numbers are numpy float64 in the notebooks.  They are modelled as exact *)
(* rationals <<n, d>> in lowest terms, d > 0, extended with the IEEE       *)
(* specials  nan = <<0,0>>, +inf = <<1,0>>, -inf = <<-1,0>>.  The library  *)
(* similarity routines (cosine, Pearson) involve a square root; they are   *)
(* computed in fixed point, truncated to 1/SimScale.                       *)
(***************************************************************************)
EXTENDS Integers, Sequences, FiniteSets, TLC

\* ------------------------------------------------------------------ bounds

\* Ratings of the generated small rating tables are drawn from 1..MaxRating.
MaxRating == 2

\* Resolution of a similarity value: similarities are multiples of 1/SimScale.
SimScale == 100

\* ------------------------------------------------------------- float64 model

Abs(x) == IF x < 0 THEN -x ELSE x

Sign(x) == IF x < 0 THEN -1 ELSE IF x > 0 THEN 1 ELSE 0

RECURSIVE GCD(_, _)
GCD(a, b) == IF b = 0 THEN a ELSE GCD(b, a % b)

\* The float n/d; a zero divisor gives the IEEE specials.
Num(n, d) ==
    IF d = 0 THEN <<Sign(n), 0>>
    ELSE LET g == GCD(Abs(n), Abs(d))
             s == IF d < 0 THEN -1 ELSE 1
         IN  <<(s * n) \div g, (s * d) \div g>>

F(i) == <<i, 1>>

nan == <<0, 0>>

IsNaN(x) == x[1] = 0 /\ x[2] = 0

IsFinite(x) == x[2] > 0

Mul(x, y) == Num(x[1] * y[1], x[2] * y[2])

Add(x, y) ==
    IF x[2] = 0 /\ y[2] = 0
    THEN (IF x[1] = y[1] THEN x ELSE nan)
    ELSE Num(x[1] * y[2] + y[1] * x[2], x[2] * y[2])

Neg(x) == <<-x[1], x[2]>>

Sub(x, y) == Add(x, Neg(y))

\* numpy float64 division: no exception, x/0 is inf or nan.
Div(x, y) == Mul(x, Num(y[2], y[1]))

\* ------------------------------------------------------------ the data cells

Range(s) == {s[i] : i \in DOMAIN s}

IndexOf(s, x) == CHOOSE i \in DOMAIN s : s[i] = x

\* pd.DataFrame(data, index=...): rows are the index labels, columns the keys
\* of the dict; cell (u, i) is the entry of list data[i] at u's position.
DataFrame(data, index) ==
    [u \in Range(index) |-> [i \in DOMAIN data |-> data[i][IndexOf(index, u)]]]

Users5 == <<"user-1", "user-2", "user-3", "user-4", "user-5">>

\* The rating table both notebooks define.
ReferenceData ==
    [data |-> ("item-1" :> <<F(7), F(6), nan, F(1), F(1)>>)
           @@ ("item-2" :> <<F(6), F(7), F(3), F(2), nan>>)
           @@ ("item-3" :> <<F(7), nan, F(3), F(2), F(1)>>)
           @@ ("item-4" :> <<F(4), F(4), F(1), F(3), F(2)>>)
           @@ ("item-5" :> <<F(5), F(3), F(1), F(3), F(3)>>)
           @@ ("item-6" :> <<F(4), F(4), nan, F(4), F(3)>>),
     index |-> Users5]

\* A sequence without its k-th entry.
Without(s, k) == [j \in 1..(Len(s) - 1) |-> IF j < k THEN s[j] ELSE s[j + 1]]

\* The literal with one user (one position of every list) removed.
DropUser(lit, k) ==
    [data |-> [i \in DOMAIN lit.data |-> Without(lit.data[i], k)],
     index |-> Without(lit.index, k)]

\* The literal with one item (one key of the dict) removed.
DropItem(lit, item) ==
    [data |-> [i \in DOMAIN lit.data \ {item} |-> lit.data[i]],
     index |-> lit.index]

\* Edits of the reference literal that lose one label.
DroppedLabelData ==
    {DropUser(ReferenceData, k) : k \in DOMAIN ReferenceData.index}
    \cup {DropItem(ReferenceData, i) : i \in DOMAIN ReferenceData.data}

Users3 == <<"user-1", "user-2", "user-3">>

Ratings == {F(r) : r \in 1..MaxRating}

\* Small edits of the literal: three users, three items, the ratings drawn
\* from 1..MaxRating.  As in the reference table user-3 has not rated item-1,
\* and the other two users may or may not have; user-3 rates item-2 lowest
\* and item-6 highest, user-2 rates item-1 (if at all) and item-6 lowest.
SmallData ==
    { [data |-> ("item-1" :> <<a1, a2, nan>>)
             @@ ("item-2" :> <<b[1], b[2], F(1)>>)
             @@ ("item-6" :> <<c, F(1), F(MaxRating)>>),
       index |-> Users3] :
        a1 \in Ratings \cup {nan},
        a2 \in {F(1), nan},
        b \in [1..2 -> Ratings],
        c \in Ratings }

\* A sequence with its j-th and k-th entries exchanged.
Exchanged(s, j, k) ==
    [n \in DOMAIN s |-> IF n = j THEN s[k] ELSE IF n = k THEN s[j] ELSE s[n]]

\* The literal with the ratings at positions j and k of every list exchanged:
\* the two users trade their rows.
ExchangeRows(lit, j, k) ==
    [data |-> [i \in DOMAIN lit.data |-> Exchanged(lit.data[i], j, k)],
     index |-> lit.index]

\* The literal with positions j and k exchanged in every list and in the
\* index: the same table, written down in another order.
SwapPositions(lit, j, k) ==
    [data |-> [i \in DOMAIN lit.data |-> Exchanged(lit.data[i], j, k)],
     index |-> Exchanged(lit.index, j, k)]

\* The literal with the ratings at position from copied to position to.
CopyRow(lit, from, to) ==
    [data |-> [i \in DOMAIN lit.data |->
                 [n \in DOMAIN lit.data[i] |->
                    IF n = to THEN lit.data[i][from] ELSE lit.data[i][n]]],
     index |-> lit.index]

\* The reference table with user-5 rating exactly as user-4 does, written
\* down in the reference order and with user-4 and user-5 exchanged.
TieData ==
    {CopyRow(ReferenceData, 4, 5), SwapPositions(CopyRow(ReferenceData, 4, 5), 4, 5)}

\* The reference table with the rows of user-2 and user-4 exchanged.
ExchangedPeerData == {ExchangeRows(ReferenceData, 2, 4)}

\* The values of the `data = {...}` literal (with its index) the model runs
\* the Cosine Similarity and the Pearson Correlation notebook on.
DataLiterals ==
    {ReferenceData} \cup DroppedLabelData \cup SmallData \cup TieData
        \cup ExchangedPeerData

Users12 ==
    <<"user-1", "user-2", "user-3", "user-4", "user-5", "user-6",
      "user-7", "user-8", "user-9", "user-10", "user-11", "user-12">>

\* The rating table the SVD notebook defines.
SvdReferenceData ==
    [data |-> ("movieA" :> <<F(1), F(7), F(3), F(5), F(3), F(5),
                             F(3), F(5), F(3), F(5), F(3), F(5)>>)
           @@ ("movieB" :> <<F(1), F(7), F(1), F(7), F(1), F(7),
                             F(1), F(7), F(1), F(7), F(1), F(7)>>)
           @@ ("movieC" :> <<F(1), F(7), F(1), F(7), nan, nan,
                             nan, nan, nan, nan, nan, nan>>),
     index |-> Users12]

\* Small edits of that literal: two users, user-1 with any ratings or none
\* for the three movies, user-2 with a rating for movieA only.
SvdSmallData ==
    { [data |-> ("movieA" :> <<x[1], F(1)>>)
             @@ ("movieB" :> <<x[2], nan>>)
             @@ ("movieC" :> <<x[3], nan>>),
       index |-> <<"user-1", "user-2">>] :
        x \in [1..3 -> Ratings \cup {nan}] }

\* The values of the `data = {...}` literal the model runs the SVD notebook on.
SvdDataLiterals == {SvdReferenceData} \cup SvdSmallData

\* ------------------------------------------------- pandas / sklearn routines

RECURSIVE SumInt(_, _)
SumInt(f, S) ==
    IF S = {} THEN 0
    ELSE LET x == CHOOSE x \in S : TRUE IN f[x] + SumInt(f, S \ {x})

RECURSIVE SumFloat(_, _)
SumFloat(f, S) ==
    IF S = {} THEN F(0)
    ELSE LET x == CHOOSE x \in S : TRUE IN Add(f[x], SumFloat(f, S \ {x}))

RECURSIVE LCMOf(_, _)
LCMOf(f, S) ==
    IF S = {} THEN 1
    ELSE LET x == CHOOSE x \in S : TRUE
             l == LCMOf(f, S \ {x})
         IN  (l \div GCD(l, f[x][2])) * f[x][2]

Observed(row) == {i \in DOMAIN row : ~IsNaN(row[i])}

\* The sum of the observed entries divided by the number of all entries.
RowMean_CountMissing(row) ==
    Div(SumFloat(row, Observed(row)), F(Cardinality(DOMAIN row)))

\* Series.mean(): the mean of the observed entries (nan for none).
RowMean(row) == Div(SumFloat(row, Observed(row)), F(Cardinality(Observed(row))))

\* DataFrame.mean(axis=1)
MeanAxis1(df) == [u \in DOMAIN df |-> RowMean(df[u])]

\* The loop  means_data_frame.loc[user] = means_data_frame.loc[user].subtract(user_means[user])
SubtractMeans(df, means) ==
    [u \in DOMAIN df |-> [i \in DOMAIN df[u] |-> Sub(df[u][i], means[u])]]

\* What the mean-centring statements leave behind with the copy missing
\* (means_data_frame = data_frame): the loop writes into the rating table too.
MeanCentring_NoCopy(df) ==
    [data_frame       |-> SubtractMeans(df, MeanAxis1(df)),
     user_means       |-> MeanAxis1(df),
     means_data_frame |-> SubtractMeans(df, MeanAxis1(df))]

\* means_data_frame = data_frame.copy(); user_means = means_data_frame.mean(axis=1);
\* the subtract loop over means_data_frame.  The loop writes into the copy,
\* so the table data_frame names is the one it named before.
MeanCentring(df) ==
    [data_frame       |-> df,
     user_means       |-> MeanAxis1(df),
     means_data_frame |-> SubtractMeans(df, MeanAxis1(df))]

\* The same statements in cell d237eebe, with the copy missing.
ItemMeanCentring_NoCopy(df) == MeanCentring_NoCopy(df)

\* The same statements in cell d237eebe (there with .copy().astype(float)).
ItemMeanCentring(df) == MeanCentring(df)

\* Every missing entry replaced by the mean of its column.
RowMeanFill_ColumnMeans(df) ==
    [u \in DOMAIN df |->
        [i \in DOMAIN df[u] |->
            IF IsNaN(df[u][i])
            THEN RowMean([w \in DOMAIN df |-> df[w][i]])
            ELSE df[u][i]]]

\* data_frame.apply(lambda row: row.fillna(row.mean()), axis=1)
RowMeanFill(df) ==
    [u \in DOMAIN df |->
        [i \in DOMAIN df[u] |->
            IF IsNaN(df[u][i]) THEN RowMean(df[u]) ELSE df[u][i]]]

\* DataFrame.columns
Columns(df) == UNION {DOMAIN df[u] : u \in DOMAIN df}

\* DataFrame.T
Transpose(df) == [i \in Columns(df) |-> [u \in DOMAIN df |-> df[u][i]]]

\* DataFrame.fillna(0)
FillNa0(df) ==
    [u \in DOMAIN df |-> [i \in DOMAIN df[u] |-> IF IsNaN(df[u][i]) THEN F(0) ELSE df[u][i]]]

\* A vector of finite floats over S scaled by a positive integer to integers.
IntVec(v, S) ==
    LET l == LCMOf(v, S) IN [i \in S |-> v[i][1] * (l \div v[i][2])]

Dot(a, b, S) == SumInt([i \in S |-> a[i] * b[i]], S)

\* floor(sqrt(q)) for 0 <= q <= SimScale^2
ISqrt(q) == CHOOSE c \in 0..SimScale : c * c <= q /\ (c + 1) * (c + 1) > q

\* <<(a * b) \div d, (a * b) % d>> for a, b >= 0 and d > 0; where a * b does
\* not fit the integers of the checker it is computed by doubling, so that no
\* intermediate value exceeds 3 * d or a.
RECURSIVE MulDivMod(_, _, _)
MulDivMod(a, b, d) ==
    IF a = 0 \/ b <= 2147483647 \div a THEN <<(a * b) \div d, (a * b) % d>>
    ELSE LET h  == MulDivMod(a, b \div 2, d)
             q2 == 2 * h[1] + ((2 * h[2]) \div d)
             r2 == (2 * h[2]) % d
             r3 == r2 + (a % d)
         IN  IF b % 2 = 0 THEN <<q2, r2>>
             ELSE <<q2 + (a \div d) + (r3 \div d), r3 % d>>

\* num / sqrt(den2) in fixed point, for num^2 <= den2, den2 > 0
FixedRatio(num, den2) ==
    LET a == SimScale * Abs(num)
    IN  Num(Sign(num) * ISqrt(MulDivMod(a, a, den2)[1]), SimScale)

\* The cosine over the positions rated in both rows only (a zero-filled entry
\* counts as unrated) instead of over all positions.
CosineOfRows_MutualOnly(v, w) ==
    LET S  == {i \in DOMAIN v : v[i][1] # 0 /\ w[i][1] # 0}
        a  == IntVec(v, S)
        b  == IntVec(w, S)
        na == Dot(a, a, S)
        nb == Dot(b, b, S)
    IN  IF na = 0 \/ nb = 0 THEN F(0) ELSE FixedRatio(Dot(a, b, S), na * nb)

\* The cosine with a zero row taken to be similar to itself.
CosineOfRows_ZeroRowSelfSimilar(v, w) ==
    LET S  == DOMAIN v
        a  == IntVec(v, S)
        b  == IntVec(w, S)
        na == Dot(a, a, S)
        nb == Dot(b, b, S)
    IN  IF na = 0 \/ nb = 0 THEN (IF v = w THEN F(1) ELSE F(0))
        ELSE FixedRatio(Dot(a, b, S), na * nb)

\* sklearn cosine_similarity of two rows: rows are L2-normalised (a zero row
\* stays zero) and multiplied.
CosineOfRows(v, w) ==
    LET S  == DOMAIN v
        a  == IntVec(v, S)
        b  == IntVec(w, S)
        na == Dot(a, a, S)
        nb == Dot(b, b, S)
    IN  IF na = 0 \/ nb = 0 THEN F(0) ELSE FixedRatio(Dot(a, b, S), na * nb)

\* pd.DataFrame(cosine_similarity(X), index=X.index, columns=X.index)
CosineSimilarity(X) == [u \in DOMAIN X |-> [w \in DOMAIN X |-> CosineOfRows(X[u], X[w])]]

\* Pearson correlation of two rows over the entries observed in both
\* (pairwise complete); nan when a variance is zero or nothing is shared.
PearsonOfRows(v, w) ==
    LET S  == Observed(v) \cap Observed(w)
        n  == Cardinality(S)
        x  == IntVec(v, S)
        y  == IntVec(w, S)
        sx == SumInt(x, S)
        sy == SumInt(y, S)
        vx == n * Dot(x, x, S) - sx * sx
        vy == n * Dot(y, y, S) - sy * sy
        c  == n * Dot(x, y, S) - sx * sy
    IN  IF vx = 0 \/ vy = 0 THEN nan ELSE FixedRatio(c, vx * vy)

\* data_frame.T.corr()
Corr(df) == [u \in DOMAIN df |-> [w \in DOMAIN df |-> PearsonOfRows(df[u], df[w])]]

\* ------------------------------------------------------------------- state

VARIABLES
    notebook,                       \* the notebook this kernel runs
    data,                           \* the `data = {...}` literal and its index
    data_frame,
    cosine_similarity_raw,
    means_data_frame,
    user_means,
    cosine_similarity_mean,
    correlation,
    similarity_matrix,
    prediction_user_3_item_1,
    prediction_user_3_item_6,
    mean_prediction_user_3_item_1,
    mean_prediction_user_3_item_6,
    raised,                         \* the exception of the cell run last
    history                         \* how far the session is in predicting,
                                    \* mean-centring again and predicting again

vars == <<notebook, data, data_frame, cosine_similarity_raw, means_data_frame,
          user_means, cosine_similarity_mean, correlation, similarity_matrix,
          prediction_user_3_item_1, prediction_user_3_item_6,
          mean_prediction_user_3_item_1, mean_prediction_user_3_item_6, raised,
          history>>

Unbound == <<>>

Bound(x) == Len(x) = 1

Val(x) == x[1]

\* The labels the prediction statements spell out.
Target == "user-3"

Peer1 == "user-1"

Peer2 == "user-2"

Peers == {Peer1, Peer2}

\* Every .loc[row][column] lookup of a prediction statement finds its label.
HasLabels(sim, values, item) ==
    /\ Target \in DOMAIN sim
    /\ Peers \subseteq DOMAIN sim[Target]
    /\ Peers \subseteq DOMAIN values
    /\ \A p \in Peers : item \in DOMAIN values[p]

FAbs(x) == <<Abs(x[1]), x[2]>>

\* The weighted sum divided by the sum of the absolute similarities.
WeightedAverage_AbsDivisor(sim, values, item) ==
    Div(Add(Mul(sim[Target][Peer1], values[Peer1][item]),
            Mul(sim[Target][Peer2], values[Peer2][item])),
        Add(FAbs(sim[Target][Peer1]), FAbs(sim[Target][Peer2])))

\* The weighted sum divided by the first peer's similarity alone.
WeightedAverage_FirstWeightOnly(sim, values, item) ==
    Div(Add(Mul(sim[Target][Peer1], values[Peer1][item]),
            Mul(sim[Target][Peer2], values[Peer2][item])),
        sim[Target][Peer1])

\* (sim[user-3][user-1] * values[user-1][item] + sim[user-3][user-2] * values[user-2][item])
\*     / (sim[user-3][user-1] + sim[user-3][user-2])
WeightedAverage(sim, values, item) ==
    Div(Add(Mul(sim[Target][Peer1], values[Peer1][item]),
            Mul(sim[Target][Peer2], values[Peer2][item])),
        Add(sim[Target][Peer1], sim[Target][Peer2]))

\* The target's mean added to the weighted sum before the normalisation.
MeanPrediction_MeanBeforeDivision(means, sim, centred, item) ==
    Div(Add(means[Target],
            Add(Mul(sim[Target][Peer1], centred[Peer1][item]),
                Mul(sim[Target][Peer2], centred[Peer2][item]))),
        Add(sim[Target][Peer1], sim[Target][Peer2]))

\* user_means['user-3'] + (weighted average of the mean-centred ratings)
MeanPrediction(means, sim, centred, item) ==
    Add(means[Target], WeightedAverage(sim, centred, item))

\* A missing label reported as the exception of an unbound name.
RawOutcome_WrongException(sim, item) ==
    IF ~Bound(sim) \/ ~Bound(data_frame) THEN "NameError"
    ELSE IF ~HasLabels(Val(sim), Val(data_frame), item) THEN "NameError"
    ELSE "none"

\* The exception a prediction statement ends in, "none" when it assigns.
RawOutcome(sim, item) ==
    IF ~Bound(sim) \/ ~Bound(data_frame) THEN "NameError"
    ELSE IF ~HasLabels(Val(sim), Val(data_frame), item) THEN "KeyError"
    ELSE "none"

MeanOutcome(means, sim, centred, item) ==
    IF ~Bound(means) \/ ~Bound(sim) \/ ~Bound(centred) THEN "NameError"
    ELSE IF Target \notin DOMAIN Val(means)
            \/ ~HasLabels(Val(sim), Val(centred), item) THEN "KeyError"
    ELSE "none"

FirstError(outcomes) ==
    IF \A k \in DOMAIN outcomes : outcomes[k] = "none" THEN "none"
    ELSE outcomes[CHOOSE k \in DOMAIN outcomes :
                    /\ outcomes[k] # "none"
                    /\ \A j \in 1..(k - 1) : outcomes[j] = "none"]

\* Statement k of a cell is reached: no earlier statement raised.
Reached(outcomes, k) == \A j \in 1..(k - 1) : outcomes[j] = "none"

Assigns(outcomes, k) == Reached(outcomes, k) /\ outcomes[k] = "none"

\* The history after a run of the prediction cell that raised nothing.
Predicted(h) ==
    IF h = "fresh" THEN "predicted"
    ELSE IF h = "recentred" THEN "repredicted"
    ELSE h

\* The history after a run of a cell holding the mean-centring statements.
Recentred(h) == IF h = "predicted" THEN "recentred" ELSE h

Init ==
    /\ \/ notebook \in {"cosine", "pearson"} /\ data \in DataLiterals
       \/ notebook = "svd" /\ data \in SvdDataLiterals
    /\ data_frame = Unbound
    /\ cosine_similarity_raw = Unbound
    /\ means_data_frame = Unbound
    /\ user_means = Unbound
    /\ cosine_similarity_mean = Unbound
    /\ correlation = Unbound
    /\ similarity_matrix = Unbound
    /\ prediction_user_3_item_1 = Unbound
    /\ prediction_user_3_item_6 = Unbound
    /\ mean_prediction_user_3_item_1 = Unbound
    /\ mean_prediction_user_3_item_6 = Unbound
    /\ raised = "none"
    /\ history = "fresh"

\* ------------------------------------------------ Cosine Similarity notebook

\* cell e0faf754 / cell 5c5dc3a3: data_frame = pd.DataFrame(data, index=[...])
DefineDataFrame ==
    /\ data_frame' = <<DataFrame(data.data, data.index)>>
    /\ raised' = "none"
    /\ UNCHANGED <<notebook, data, history, similarity_matrix, cosine_similarity_raw,
                   means_data_frame, user_means,
                   cosine_similarity_mean, correlation, prediction_user_3_item_1,
                   prediction_user_3_item_6, mean_prediction_user_3_item_1,
                   mean_prediction_user_3_item_6>>

\* cell 6801206f: cosine_similarity_raw = cosine_similarity(data_frame.fillna(0))
CosineRaw ==
    /\ notebook = "cosine"
    /\ IF Bound(data_frame)
       THEN /\ cosine_similarity_raw' = <<CosineSimilarity(FillNa0(Val(data_frame)))>>
            /\ raised' = "none"
       ELSE /\ raised' = "NameError"
            /\ UNCHANGED cosine_similarity_raw
    /\ UNCHANGED <<notebook, data, history, similarity_matrix, data_frame,
                   means_data_frame, user_means,
                   cosine_similarity_mean, correlation, prediction_user_3_item_1,
                   prediction_user_3_item_6, mean_prediction_user_3_item_1,
                   mean_prediction_user_3_item_6>>

\* cell 42d649de: mean centring, then the cosine similarity of the centred table
CosineMean ==
    /\ notebook = "cosine"
    /\ IF Bound(data_frame)
       THEN LET c == MeanCentring(Val(data_frame))
            IN  /\ data_frame' = <<c.data_frame>>
                /\ user_means' = <<c.user_means>>
                /\ means_data_frame' = <<c.means_data_frame>>
                /\ cosine_similarity_mean' =
                     <<CosineSimilarity(FillNa0(c.means_data_frame))>>
                /\ raised' = "none"
                /\ history' = Recentred(history)
       ELSE /\ raised' = "NameError"
            /\ UNCHANGED <<data_frame, user_means, means_data_frame,
                           cosine_similarity_mean, history>>
    /\ UNCHANGED <<notebook, data, similarity_matrix, cosine_similarity_raw, correlation,
                   prediction_user_3_item_1, prediction_user_3_item_6,
                   mean_prediction_user_3_item_1, mean_prediction_user_3_item_6>>

\* cell 63120c9b: the four predictions of the cosine notebook, in order
CosinePredictions ==
    /\ notebook = "cosine"
    /\ LET o == << RawOutcome(cosine_similarity_raw, "item-1"),
                   RawOutcome(cosine_similarity_raw, "item-6"),
                   MeanOutcome(user_means, cosine_similarity_mean, means_data_frame, "item-1"),
                   MeanOutcome(user_means, cosine_similarity_mean, means_data_frame, "item-6") >>
       IN  /\ prediction_user_3_item_1' =
                IF Assigns(o, 1)
                THEN <<WeightedAverage(Val(cosine_similarity_raw), Val(data_frame), "item-1")>>
                ELSE prediction_user_3_item_1
           /\ prediction_user_3_item_6' =
                IF Assigns(o, 2)
                THEN <<WeightedAverage(Val(cosine_similarity_raw), Val(data_frame), "item-6")>>
                ELSE prediction_user_3_item_6
           /\ mean_prediction_user_3_item_1' =
                IF Assigns(o, 3)
                THEN <<MeanPrediction(Val(user_means), Val(cosine_similarity_mean),
                                      Val(means_data_frame), "item-1")>>
                ELSE mean_prediction_user_3_item_1
           /\ mean_prediction_user_3_item_6' =
                IF Assigns(o, 4)
                THEN <<MeanPrediction(Val(user_means), Val(cosine_similarity_mean),
                                      Val(means_data_frame), "item-6")>>
                ELSE mean_prediction_user_3_item_6
           /\ raised' = FirstError(o)
           /\ history' = IF FirstError(o) = "none" THEN Predicted(history) ELSE history
    /\ UNCHANGED <<notebook, data, similarity_matrix, data_frame, cosine_similarity_raw,
                   means_data_frame, user_means, cosine_similarity_mean, correlation>>

\* cell 0c2b1950: similarity_matrix = cosine_similarity(data_frame.fillna(0).T)
ItemCosineRaw ==
    /\ notebook = "cosine"
    /\ IF Bound(data_frame)
       THEN /\ similarity_matrix' =
                 <<CosineSimilarity(Transpose(FillNa0(Val(data_frame))))>>
            /\ raised' = "none"
       ELSE /\ raised' = "NameError"
            /\ UNCHANGED similarity_matrix
    /\ UNCHANGED <<notebook, data, history, data_frame, cosine_similarity_raw,
                   means_data_frame,
                   user_means, cosine_similarity_mean, correlation,
                   prediction_user_3_item_1, prediction_user_3_item_6,
                   mean_prediction_user_3_item_1, mean_prediction_user_3_item_6>>

\* cell d237eebe: mean centring again, then the item-item cosine similarity of
\* the centred table
ItemCosineMean ==
    /\ notebook = "cosine"
    /\ IF Bound(data_frame)
       THEN LET c == ItemMeanCentring(Val(data_frame))
            IN  /\ data_frame' = <<c.data_frame>>
                /\ user_means' = <<c.user_means>>
                /\ means_data_frame' = <<c.means_data_frame>>
                /\ similarity_matrix' =
                     <<CosineSimilarity(Transpose(FillNa0(c.means_data_frame)))>>
                /\ raised' = "none"
                /\ history' = Recentred(history)
       ELSE /\ raised' = "NameError"
            /\ UNCHANGED <<data_frame, user_means, means_data_frame, similarity_matrix,
                           history>>
    /\ UNCHANGED <<notebook, data, cosine_similarity_raw, cosine_similarity_mean,
                   correlation, prediction_user_3_item_1, prediction_user_3_item_6,
                   mean_prediction_user_3_item_1, mean_prediction_user_3_item_6>>

\* --------------------------------------------------------- Pearson notebook

\* cell 3e06c6b1: correlation = data_frame.T.corr()
Correlation ==
    /\ notebook = "pearson"
    /\ IF Bound(data_frame)
       THEN /\ correlation' = <<Corr(Val(data_frame))>>
            /\ raised' = "none"
       ELSE /\ raised' = "NameError"
            /\ UNCHANGED correlation
    /\ UNCHANGED <<notebook, data, history, similarity_matrix, data_frame,
                   cosine_similarity_raw, means_data_frame,
                   user_means, cosine_similarity_mean, prediction_user_3_item_1,
                   prediction_user_3_item_6, mean_prediction_user_3_item_1,
                   mean_prediction_user_3_item_6>>

\* cell d14d558a: the two raw predictions of the Pearson notebook
PearsonPredictions ==
    /\ notebook = "pearson"
    /\ LET o == << RawOutcome(correlation, "item-1"), RawOutcome(correlation, "item-6") >>
       IN  /\ prediction_user_3_item_1' =
                IF Assigns(o, 1)
                THEN <<WeightedAverage(Val(correlation), Val(data_frame), "item-1")>>
                ELSE prediction_user_3_item_1
           /\ prediction_user_3_item_6' =
                IF Assigns(o, 2)
                THEN <<WeightedAverage(Val(correlation), Val(data_frame), "item-6")>>
                ELSE prediction_user_3_item_6
           /\ raised' = FirstError(o)
    /\ UNCHANGED <<notebook, data, history, similarity_matrix, data_frame,
                   cosine_similarity_raw, means_data_frame,
                   user_means, cosine_similarity_mean, correlation,
                   mean_prediction_user_3_item_1, mean_prediction_user_3_item_6>>

\* cell e1c1efeb: mean centring, then the two mean-centred predictions
PearsonMeanPredictions ==
    /\ notebook = "pearson"
    /\ IF Bound(data_frame)
       THEN LET c       == MeanCentring(Val(data_frame))
                means   == c.user_means
                centred == c.means_data_frame
                o == << MeanOutcome(<<means>>, correlation, <<centred>>, "item-1"),
                        MeanOutcome(<<means>>, correlation, <<centred>>, "item-6") >>
            IN  /\ data_frame' = <<c.data_frame>>
                /\ user_means' = <<means>>
                /\ means_data_frame' = <<centred>>
                /\ mean_prediction_user_3_item_1' =
                     IF Assigns(o, 1)
                     THEN <<MeanPrediction(means, Val(correlation), centred, "item-1")>>
                     ELSE mean_prediction_user_3_item_1
                /\ mean_prediction_user_3_item_6' =
                     IF Assigns(o, 2)
                     THEN <<MeanPrediction(means, Val(correlation), centred, "item-6")>>
                     ELSE mean_prediction_user_3_item_6
                /\ raised' = FirstError(o)
       ELSE /\ raised' = "NameError"
            /\ UNCHANGED <<data_frame, user_means, means_data_frame,
                           mean_prediction_user_3_item_1, mean_prediction_user_3_item_6>>
    /\ UNCHANGED <<notebook, data, history, similarity_matrix, cosine_similarity_raw,
                   cosine_similarity_mean, correlation, prediction_user_3_item_1,
                   prediction_user_3_item_6>>

\* ------------------------------------------------------------- SVD notebook

\* cell a2421701: data_frame = data_frame.apply(lambda row: row.fillna(row.mean()), axis=1)
FillRowMeans ==
    /\ notebook = "svd"
    /\ IF Bound(data_frame)
       THEN /\ data_frame' = <<RowMeanFill(Val(data_frame))>>
            /\ raised' = "none"
       ELSE /\ raised' = "NameError"
            /\ UNCHANGED data_frame
    /\ UNCHANGED <<notebook, data, history, similarity_matrix, cosine_similarity_raw,
                   means_data_frame, user_means, cosine_similarity_mean, correlation,
                   prediction_user_3_item_1, prediction_user_3_item_6,
                   mean_prediction_user_3_item_1, mean_prediction_user_3_item_6>>

Next ==
    \/ DefineDataFrame
    \/ CosineRaw
    \/ CosineMean
    \/ CosinePredictions
    \/ ItemCosineRaw
    \/ ItemCosineMean
    \/ Correlation
    \/ PearsonPredictions
    \/ PearsonMeanPredictions
    \/ FillRowMeans

Spec == Init /\ [][Next]_vars

\* ------------------------------------------------------------ the claims

PredictedItems == {"item-1", "item-6"}

\* The similarity table the raw / the mean-centred predictions of the running
\* notebook read.
RawSim == IF notebook = "cosine" THEN cosine_similarity_raw ELSE correlation

MeanSim == IF notebook = "cosine" THEN cosine_similarity_mean ELSE correlation

RawPrediction(item) ==
    IF item = "item-1" THEN prediction_user_3_item_1 ELSE prediction_user_3_item_6

CentredPrediction(item) ==
    IF item = "item-1" THEN mean_prediction_user_3_item_1 ELSE mean_prediction_user_3_item_6

\* x < y on floats (false when either is nan)
Less(x, y) ==
    /\ ~IsNaN(x) /\ ~IsNaN(y)
    /\ IF x[2] = 0 \/ y[2] = 0
       THEN (x[2] = 0 /\ x[1] < 0 /\ y # x) \/ (y[2] = 0 /\ y[1] > 0 /\ y # x)
       ELSE x[1] * y[2] < y[1] * x[2]

\* The users other than the target with a rating for the item.
Eligible(df, item) ==
    {u \in DOMAIN df \ {Target} : item \in DOMAIN df[u] /\ ~IsNaN(df[u][item])}

\* The peers the statement reads are k = 2 eligible users, none the target,
\* and no eligible user left out is strictly more similar to the target.
PeersAreTopK(sim, df, item) ==
    /\ Cardinality(Peers) = 2
    /\ Target \notin Peers
    /\ Peers \subseteq Eligible(df, item)
    /\ \A p \in Peers : \A u \in Eligible(df, item) \ Peers :
          ~Less(sim[Target][p], sim[Target][u])

\* C1: whenever a prediction was computed and at least k = 2 users are
\* eligible, the peers it used are exactly k eligible users other than the
\* target and no unused eligible user is strictly more similar to the target.
\* Stated for the table the notebooks ship with, where it already fails.
C1_PeersAreTheKMostSimilar ==
    data = ReferenceData => \A item \in PredictedItems :
        /\ (Bound(RawPrediction(item))
              /\ Cardinality(Eligible(Val(data_frame), item)) >= 2)
            => PeersAreTopK(Val(RawSim), Val(data_frame), item)
        /\ (Bound(CentredPrediction(item))
              /\ Cardinality(Eligible(Val(data_frame), item)) >= 2)
            => PeersAreTopK(Val(MeanSim), Val(data_frame), item)

\* S is the set of the k users most similar to the target, the target excluded.
IsTopK(sim, S, k) ==
    /\ S \subseteq DOMAIN sim[Target] \ {Target}
    /\ Cardinality(S) = k
    /\ \A p \in S : \A u \in DOMAIN sim[Target] \ (S \cup {Target}) :
          Less(sim[Target][u], sim[Target][p])

OnReferenceRawCosine ==
    notebook = "cosine" /\ data = ReferenceData /\ Bound(cosine_similarity_raw)

SimUnits(x) == x[1] * (SimScale \div x[2])

RECURSIVE SumRatings(_, _)
SumRatings(row, S) ==
    IF S = {} THEN 0
    ELSE LET i == CHOOSE i \in S : TRUE IN row[i][1] + SumRatings(row, S \ {i})

\* The weights and ratings a statement read are numbers and the weights do
\* not cancel.
Regular(sim, df, item) ==
    /\ \A p \in Peers : IsFinite(sim[Target][p]) /\ IsFinite(df[p][item])
    /\ SimUnits(sim[Target][Peer1]) + SimUnits(sim[Target][Peer2]) # 0

\* p = (c1 * r1 + c2 * r2) / (c1 + c2), stated on integers: the ratings of the
\* table are whole numbers, the similarities whole multiples of 1/SimScale.
IsSignedWeightedAverage(p, sim, df, item) ==
    LET c1 == SimUnits(sim[Target][Peer1])
        c2 == SimUnits(sim[Target][Peer2])
    IN  /\ IsFinite(p)
        /\ p[1] * (c1 + c2) = p[2] * (c1 * df[Peer1][item][1] + c2 * df[Peer2][item][1])

\* C3: a raw (centered = false) prediction is the sum over the peers of
\* similarity * rating divided by the signed sum of the similarities.
C3_RawPredictionIsSignedWeightedAverage ==
    \A item \in PredictedItems :
        (Bound(RawPrediction(item)) /\ Regular(Val(RawSim), Val(data_frame), item))
            => IsSignedWeightedAverage(Val(RawPrediction(item)), Val(RawSim),
                                       Val(data_frame), item)

\* A raw prediction computed with negative weights from two different ratings.
C3_Witness ==
    /\ Bound(prediction_user_3_item_1)
    /\ Regular(Val(RawSim), Val(data_frame), "item-1")
    /\ SimUnits(Val(RawSim)[Target][Peer1]) < 0
    /\ Val(data_frame)[Peer1]["item-1"] # Val(data_frame)[Peer2]["item-1"]

\* p = mean(target) + (c1 (r1 - mean1) + c2 (r2 - mean2)) / (c1 + c2), the
\* means being sum / count of each user's observed ratings; stated on integers.
IsTargetMeanPlusCentredAverage(p, sim, df, item) ==
    LET c1 == SimUnits(sim[Target][Peer1])
        c2 == SimUnits(sim[Target][Peer2])
        n1 == Cardinality(Observed(df[Peer1]))
        n2 == Cardinality(Observed(df[Peer2]))
        nt == Cardinality(Observed(df[Target]))
        s1 == SumRatings(df[Peer1], Observed(df[Peer1]))
        s2 == SumRatings(df[Peer2], Observed(df[Peer2]))
        st == SumRatings(df[Target], Observed(df[Target]))
        r1 == df[Peer1][item][1]
        r2 == df[Peer2][item][1]
    IN  /\ IsFinite(p)
        /\ (p[1] * nt - st * p[2]) * (c1 + c2) * n1 * n2
             = p[2] * nt * (c1 * (r1 * n1 - s1) * n2 + c2 * (r2 * n2 - s2) * n1)

\* C4: a mean-centred (centered = true) prediction is the target's mean plus
\* the similarity-weighted average of the peers' ratings, each less that
\* peer's own mean.
C4_CentredPredictionAddsTargetMeanOnce ==
    \A item \in PredictedItems :
        (/\ Bound(CentredPrediction(item))
         /\ Regular(Val(MeanSim), Val(data_frame), item)
         /\ Observed(Val(data_frame)[Target]) # {})
            => IsTargetMeanPlusCentredAverage(Val(CentredPrediction(item)), Val(MeanSim),
                                              Val(data_frame), item)

\* A mean-centred prediction where the target's mean differs from both peers'.
C4_Witness ==
    /\ Bound(mean_prediction_user_3_item_1)
    /\ Regular(Val(MeanSim), Val(data_frame), "item-1")
    /\ Val(user_means)[Target] # Val(user_means)[Peer1]
    /\ Val(user_means)[Target] # Val(user_means)[Peer2]
    /\ Val(user_means)[Peer1] # Val(user_means)[Peer2]
    /\ Val(mean_prediction_user_3_item_1) # Val(user_means)[Target]

\* C5: when no user other than the target has a rating for the item, no
\* prediction for it is ever assigned (the statement fails instead); in
\* particular none is left behind by a cell that ended without an exception.
C5_NoEligibleNeighborsGivesNoValue ==
    \A item \in PredictedItems :
        (/\ Bound(data_frame)
         /\ Eligible(Val(data_frame), item) = {}
         /\ raised = "none")
            => (~Bound(RawPrediction(item)) /\ ~Bound(CentredPrediction(item)))

SimSum(sim) == Add(sim[Target][Peer1], sim[Target][Peer2])

\* C6: when the similarities of the peers sum to exactly zero, no prediction
\* is ever assigned (the statement fails before dividing).
C6_ZeroSimilaritySumGivesNoValue ==
    \A item \in PredictedItems :
        /\ Bound(RawPrediction(item)) => SimSum(Val(RawSim)) # F(0)
        /\ Bound(CentredPrediction(item)) => SimSum(Val(MeanSim)) # F(0)

\* A step of a cell holding prediction statements.
PredictionCell == CosinePredictions \/ PearsonPredictions \/ PearsonMeanPredictions

\* The target is no row, or the item no column, of the rating table (the
\* similarity tables are indexed like the rating table).
UnknownEntity(df, item) == Target \notin DOMAIN df \/ item \notin Columns(df)

\* C7: a prediction cell run on a table without the target's row or without
\* the item's column raises KeyError, and leaves the prediction for that
\* target and item unassigned.
C7_UnknownEntityRaisesKeyError ==
    [][ \A item \in PredictedItems :
          (/\ Bound(data_frame) /\ Bound(RawSim)
           /\ UnknownEntity(Val(data_frame), item)
           /\ PredictionCell)
            => /\ raised' = "KeyError"
               /\ ~Bound(RawPrediction(item)')
               /\ ~Bound(CentredPrediction(item)') ]_vars

\* A prediction cell has raised KeyError on a table lacking the target.
C7_Witness ==
    /\ Bound(data_frame) /\ Bound(RawSim)
    /\ Target \notin DOMAIN Val(data_frame)
    /\ raised = "KeyError"

IdLess(a, b) == IndexOf(Users5, a) < IndexOf(Users5, b)

\* The eligible users strictly more similar to the target than user u.
MoreSimilar(sim, df, item, u) ==
    {w \in Eligible(df, item) : Less(sim[Target][u], sim[Target][w])}

\* Of every two eligible users equally similar to the target of whom only
\* one fits among the k = 2 most similar (exactly k - 1 eligible users are
\* more similar), the statement reads the one whose identifier comes first
\* and not the other.
TieGoesToFirstId(sim, df, item) ==
    \A a, b \in Eligible(df, item) :
        (/\ IdLess(a, b)
         /\ IsFinite(sim[Target][a])
         /\ sim[Target][a] = sim[Target][b]
         /\ Cardinality(MoreSimilar(sim, df, item, a)) = 1)
            => (a \in Peers /\ b \notin Peers)

\* C11: when two eligible users are equally similar to the target and only
\* one of them fits in the top k = 2, a computed prediction used the one that
\* comes first in identifier order, whatever the order of the rows.
C11_TieGoesToFirstIdentifier ==
    \A item \in PredictedItems :
        Bound(RawPrediction(item))
            => TieGoesToFirstId(Val(RawSim), Val(data_frame), item)
\* A step of a cell holding the mean-centring statements.
MeanCentringCell == CosineMean \/ ItemCosineMean \/ PearsonMeanPredictions

\* C12: a step that computes predictions or mean-centres (deriving the
\* centred table and the user means) leaves the rating table and the
\* user-user similarity tables the predictions read as they were, entry by
\* entry, missing entries included.
C12_PredictionLeavesMatricesUnchanged ==
    [][ LET TablesKept ==
                /\ data_frame' = data_frame
                /\ cosine_similarity_raw' = cosine_similarity_raw
                /\ correlation' = correlation
                /\ Bound(cosine_similarity_mean)
                     => cosine_similarity_mean' = cosine_similarity_mean
        IN  \* (PredictionCell \/ MeanCentringCell) => TablesKept
            TablesKept \/ ~(PredictionCell \/ MeanCentringCell) ]_vars

\* Mean-centred predictions were computed from a centred table that differs
\* from the rating table, and the rating table is still the one the data
\* cell built.
C12_Witness ==
    /\ Bound(data_frame) /\ Bound(means_data_frame)
    /\ Bound(mean_prediction_user_3_item_1)
    /\ Val(means_data_frame) # Val(data_frame)
    /\ Val(data_frame) = DataFrame(data.data, data.index)
    /\ raised = "none"
HasRating(row) == \E i \in Observed(row) : row[i] # F(0)

\* The row holds two different ratings: its mean-centred vector is not zero.
NotAllEqual(row) == \E i, j \in Observed(row) : row[i] # row[j]

Diagonal(m) == [e \in DOMAIN m |-> m[e][e]]

IsMeanOfObserved(m, row) ==
    LET n == Cardinality(Observed(row))
    IN  IF n = 0 THEN IsNaN(m)
        ELSE IsFinite(m) /\ m[1] * n = m[2] * SumRatings(row, Observed(row))

\* c is the rating r less the mean m, stated on integers.
IsRatingLessMean(c, r, m) ==
    IsFinite(c) /\ c[1] * r[2] * m[2] = c[2] * (r[1] * m[2] - m[1] * r[2])

RECURSIVE SumProducts(_, _, _)
SumProducts(v, w, S) ==
    IF S = {} THEN 0
    ELSE LET i == CHOOSE i \in S : TRUE
         IN  v[i][1] * w[i][1] + SumProducts(v, w, S \ {i})

\* c is dot / (norm of v * norm of w), truncated to 1/SimScale, with the dot
\* product taken over the positions D, the norm of v over the positions Sv
\* and the norm of w over the positions Sw (0 when a norm is 0).
IsCosineOver(c, v, w, D, Sv, Sw) ==
    LET k   == SimUnits(c)
        dot == SumProducts(v, w, D)
        nn  == SumProducts(v, v, Sv) * SumProducts(w, w, Sw)
    IN  /\ IsFinite(c)
        /\ k >= 0
        /\ IF nn = 0 THEN k = 0
           ELSE /\ k * k * nn <= SimScale * SimScale * dot * dot
                /\ (k + 1) * (k + 1) * nn > SimScale * SimScale * dot * dot

\* Every entry of the table sim is the cosine of the two rows of df with
\* the dot product and both norms over the mutually rated positions only.
OverMutualRatingsOnly(sim, df) ==
    \A u, w \in DOMAIN df :
        LET M == Observed(df[u]) \cap Observed(df[w])
        IN  IsCosineOver(sim[u][w], df[u], df[w], M, M, M)

\* Every entry of the table sim is the cosine of the two zero-filled rows of
\* df: the dot product over the mutually rated positions, the norm of each
\* row over all the positions that row rates.
OverZeroFilledRows(sim, df) ==
    \A u, w \in DOMAIN df :
        IsCosineOver(sim[u][w], df[u], df[w],
                     Observed(df[u]) \cap Observed(df[w]),
                     Observed(df[u]), Observed(df[w]))

C17_RowMeanFillIsIdempotent ==
    [][ (FillRowMeans /\ Bound(data_frame)) =>
          LET old == Val(data_frame)
              new == Val(data_frame')
          IN  /\ DOMAIN new = DOMAIN old
              /\ \A u \in DOMAIN old :
                    /\ DOMAIN new[u] = DOMAIN old[u]
                    /\ \A i \in DOMAIN old[u] :
                          /\ ~IsNaN(old[u][i]) => new[u][i] = old[u][i]
                          /\ IsNaN(old[u][i]) => IsMeanOfObserved(new[u][i], old[u])
                          /\ Observed(old[u]) # {} => ~IsNaN(new[u][i])
              /\ old # DataFrame(data.data, data.index) => new = old ]_vars

\* The SVD notebook has filled its reference table: user-5, who rated
\* movieA 3 and movieB 1, has 2 for movieC.
C17_Witness ==
    /\ notebook = "svd"
    /\ data = SvdReferenceData
    /\ Bound(data_frame)
    /\ Val(data_frame) # DataFrame(data.data, data.index)
    /\ Val(data_frame)["user-5"]["movieC"] = F(2)
    /\ Val(data_frame)["user-6"]["movieC"] = F(6)
\* x <= y on floats (false when either is nan)
AtMost(x, y) == ~IsNaN(x) /\ ~IsNaN(y) /\ ~Less(y, x)

\* p lies between the two peers' ratings for the item, these included.
WithinPeerRatings(p, df, item) ==
    \/ AtMost(df[Peer1][item], p) /\ AtMost(p, df[Peer2][item])
    \/ AtMost(df[Peer2][item], p) /\ AtMost(p, df[Peer1][item])

====
